---- MODULE Spec2Model ----
(***************************************************************************)
(* Model of the three numeric solvers of the repository:                   *)
(*   mva_exato                           (src/modules/MVA.py)              *)
(*   mva_aproximado_bard                 (src/modules/MVA.py)              *)
(*   calculate_system_performance_markov (src/modules/markovChain.py)      *)
(*                                                                         *)
(* The MVA solvers compute on Python floats / numpy float64, that is on    *)
(* IEEE-754 binary64 numbers with round-to-nearest-even.  They are         *)
(* modelled bit-exactly: a number is a dyadic rational (-1)^neg * m * 2^e  *)
(* whose mantissa m is an arbitrary-precision natural number, and every    *)
(* float operation is the exact operation followed by rounding to Prec     *)
(* significant bits.  Overflow, underflow and subnormals are outside the   *)
(* model (the exponent is unbounded); the inputs are far from those.       *)
(*                                                                         *)
(* The Markov solver hands its matrix to numpy.linalg.solve, which is not  *)
(* code of the repository; it is modelled by its contract (the exact       *)
(* solution of the system, or LinAlgError when the matrix is singular),    *)
(* over exact rationals.                                                   *)
(***************************************************************************)
EXTENDS Integers, Sequences, FiniteSets, TLC

(***************************************************************************)
(* Arbitrary-precision naturals: little-endian sequences of limbs in       *)
(* 0..Base-1 without leading (high) zero limbs; <<>> is zero.              *)
(***************************************************************************)
LimbBits == 13

Base == 2^LimbBits

\* F(val), with val evaluated beforehand.  TLC evaluates the elements of a
\* tuple in their order, but an operator's argument only where the operator
\* first uses it, nested in whatever is evaluated there.
Let(val, F(_)) == <<val, F(val)>>[2]

\* number of bits of an integer 0 <= n < 2^30
IntBitLen(n) == CHOOSE k \in 0..30 : n < 2^k /\ (k = 0 \/ n >= 2^(k - 1))

MaxInt(a, b) == IF a >= b THEN a ELSE b
MinInt(a, b) == IF a <= b THEN a ELSE b

SetMax(S) == CHOOSE i \in S : \A j \in S : j <= i
SetMin(S) == CHOOSE i \in S : \A j \in S : j >= i

Limb(a, i) == IF i >= 1 /\ i <= Len(a) THEN a[i] ELSE 0

\* the sequence of the values f[1], ..., f[len], for a function f on 1..len
Tuple(f, len) == SubSeq(f, 1, len)

\* the limbs of a without its leading zero limbs
Strip(a) ==
    Let({i \in 1..Len(a) : a[i] # 0}, LAMBDA nz :
        IF nz = {} THEN <<>> ELSE SubSeq(a, 1, SetMax(nz)))

BNat(n) == Strip(<<n % Base, (n \div Base) % Base, n \div (Base * Base)>>)

\* limb sums s[i] <= 2 * Base - 2: a carry enters limb k when a lower limb
\* overflows and every limb between passes a carry on
CarryIn(s, k) ==
    \E j \in 1..(k - 1) : s[j] >= Base /\ \A l \in (j + 1)..(k - 1) : s[l] = Base - 1

BAdd(a, b) ==
    Let(MaxInt(Len(a), Len(b)), LAMBDA len :
    Let(Tuple([i \in 1..len |-> Limb(a, i) + Limb(b, i)] \o <<0>>, len + 1), LAMBDA s :
        Strip(Tuple([k \in 1..(len + 1) |->
                        (s[k] + IF CarryIn(s, k) THEN 1 ELSE 0) % Base], len + 1))))

\* -1, 0, 1 as a < b, a = b, a > b
BCmp(a, b) ==
    Let({i \in 1..MaxInt(Len(a), Len(b)) : Limb(a, i) # Limb(b, i)}, LAMBDA diff :
        IF diff = {} THEN 0
        ELSE Let(SetMax(diff), LAMBDA top : IF Limb(a, top) > Limb(b, top) THEN 1 ELSE -1))

\* a borrow is taken from limb k when a lower limb of a is short and every
\* limb between is level
Borrow(a, b, k) ==
    \E j \in 1..(k - 1) :
        a[j] < Limb(b, j) /\ \A l \in (j + 1)..(k - 1) : a[l] = Limb(b, l)

\* a - b for a >= b
BSub(a, b) ==
    Strip(Tuple([k \in 1..Len(a) |->
                    (a[k] - Limb(b, k) - (IF Borrow(a, b, k) THEN 1 ELSE 0) + Base)
                        % Base], Len(a)))

\* sum of a[i] * b[k + 1 - i] for i in lo..hi
RECURSIVE ColSum(_, _, _, _, _)
ColSum(a, b, k, lo, hi) ==
    IF lo > hi THEN 0
    ELSE IF lo = hi THEN Limb(a, lo) * Limb(b, k + 1 - lo)
    ELSE ColSum(a, b, k, lo, (lo + hi) \div 2)
             + ColSum(a, b, k, (lo + hi) \div 2 + 1, hi)

\* the column sums are below Base^3: their three digits make three numbers
BMul(a, b) ==
    IF a = <<>> \/ b = <<>> THEN <<>>
    ELSE Let(Len(a) + Len(b) - 1, LAMBDA len :
         Let(Tuple([k \in 1..len |-> ColSum(a, b, k, 1, Len(a))], len), LAMBDA c :
         Let(BAdd(Strip(Tuple([k \in 1..len |-> c[k] % Base], len)),
                  Strip(<<0>> \o [k \in 1..len |-> (c[k] \div Base) % Base])), LAMBDA d01 :
             BAdd(d01, Strip(<<0, 0>> \o [k \in 1..len |-> c[k] \div (Base * Base)])))))

\* a * d for an integer 0 <= d < Base
BMulInt(a, d) ==
    Let(Strip(Tuple([k \in 1..Len(a) |-> (a[k] * d) % Base], Len(a))), LAMBDA lo :
        BAdd(lo, Strip(<<0>> \o [k \in 1..Len(a) |-> (a[k] * d) \div Base])))

\* a * 2^k
BShl(a, k) ==
    IF a = <<>> THEN a
    ELSE Let(2^(k % LimbBits), LAMBDA p :
         Let(Tuple([i \in 1..(Len(a) + 1) |->
                       ((Limb(a, i) * p) % Base) + ((Limb(a, i - 1) * p) \div Base)],
                   Len(a) + 1), LAMBDA t :
             [i \in 1..(k \div LimbBits) |-> 0] \o Strip(t)))

\* floor(a / 2^k)
BShr(a, k) ==
    Let(k \div LimbBits, LAMBDA q :
    Let(2^(k % LimbBits), LAMBDA p :
    Let(MaxInt(Len(a) - q, 0), LAMBDA len :
        Strip(Tuple([i \in 1..len |->
                        (a[i + q] \div p) + (Limb(a, i + q + 1) % p) * (Base \div p)],
                    len)))))

BitLen(a) == IF a = <<>> THEN 0 ELSE (Len(a) - 1) * LimbBits + IntBitLen(a[Len(a)])

\* bit i of a, bit 0 the lowest
BBit(a, i) == (Limb(a, i \div LimbBits + 1) \div 2^(i % LimbBits)) % 2

\* for n > 0
IntTrailingZeros(n) == CHOOSE k \in 0..29 : n % 2^k = 0 /\ n % 2^(k + 1) # 0

\* for a # 0
TrailingZeros(a) ==
    Let(SetMin({i \in 1..Len(a) : a[i] # 0}), LAMBDA t :
        (t - 1) * LimbBits + IntTrailingZeros(a[t]))

\* the integer a, for a < 2^31
ToInt(a) == Limb(a, 1) + Base * Limb(a, 2) + Base * Base * Limb(a, 3)

\* <<floor(r2 / b), r2 mod b>> for b # 0 and r2 < b * Base: the digit is first
\* estimated from below on the leading bits of r2 and b, then corrected
DivDigit(r2, b) ==
    Let(MaxInt(BitLen(b) - 15, 0), LAMBDA s :
    Let(IF s = 0 THEN ToInt(r2) \div ToInt(b)
        ELSE ToInt(BShr(r2, s)) \div (ToInt(BShr(b, s)) + 1), LAMBDA est :
    Let(BSub(r2, BMulInt(b, est)), LAMBDA rem0 :
    Let(CHOOSE c \in 0..3 : /\ BCmp(rem0, BMulInt(b, c)) >= 0
                            /\ BCmp(rem0, BMulInt(b, c + 1)) < 0, LAMBDA c :
        <<est + c, BSub(rem0, BMulInt(b, c))>>))))

\* long division, one limb of the dividend per step: <<quotient, remainder>>
\* of the limbs of a from limb k up, the limbs above Len(a) - top being the
\* first remainder
RECURSIVE BDivLimbs(_, _, _, _)
BDivLimbs(a, b, k, top) ==
    IF k > Len(a) - top THEN <<<<>>, SubSeq(a, Len(a) - top + 1, Len(a))>>
    ELSE Let(BDivLimbs(a, b, k + 1, top), LAMBDA qr :
         Let(DivDigit(Strip(<<a[k]>> \o qr[2]), b), LAMBDA dr :
             <<Strip(<<dr[1]>> \o qr[1]), dr[2]>>))

\* <<floor(a / b), a mod b>> for b # 0
BDivMod(a, b) == BDivLimbs(a, b, 1, MinInt(Len(a), Len(b) - 1))

(***************************************************************************)
(* Dyadic rationals (-1)^neg * m * 2^e in canonical form: m odd, or the    *)
(* zero [neg |-> FALSE, m |-> <<>>, e |-> 0].  D-operations are exact.     *)
(***************************************************************************)
DZero == [neg |-> FALSE, m |-> <<>>, e |-> 0]

DNorm(neg, m, e) ==
    IF m = <<>> THEN DZero
    ELSE Let(TrailingZeros(m), LAMBDA tz :
             [neg |-> neg, m |-> BShr(m, tz), e |-> e + tz])

DInt(n) == IF n >= 0 THEN DNorm(FALSE, BNat(n), 0) ELSE DNorm(TRUE, BNat(-n), 0)

\* n * 2^e for an integer n
DScaled(n, e) ==
    Let(DInt(n), LAMBDA d : IF d = DZero THEN d ELSE [d EXCEPT !.e = d.e + e])

DNeg(x) == IF x = DZero THEN x ELSE [x EXCEPT !.neg = ~x.neg]

DAbs(x) == [x EXCEPT !.neg = FALSE]

DAdd(x, y) ==
    IF x = DZero THEN y
    ELSE IF y = DZero THEN x
    ELSE Let(MinInt(x.e, y.e), LAMBDA e :
         Let(BShl(x.m, x.e - e), LAMBDA mx :
         Let(BShl(y.m, y.e - e), LAMBDA my :
         Let(BCmp(mx, my), LAMBDA cmp :
             DNorm(IF x.neg = y.neg \/ cmp > 0 THEN x.neg ELSE y.neg,
                   IF x.neg = y.neg THEN BAdd(mx, my)
                   ELSE IF cmp > 0 THEN BSub(mx, my) ELSE BSub(my, mx),
                   e)))))

DSub(x, y) == DAdd(x, DNeg(y))

DMul(x, y) ==
    IF x = DZero \/ y = DZero THEN DZero
    ELSE DNorm(x.neg # y.neg, BMul(x.m, y.m), x.e + y.e)

\* -1, 0, 1 as x < y, x = y, x > y
DCmp(x, y) ==
    Let(DSub(x, y), LAMBDA d : IF d = DZero THEN 0 ELSE IF d.neg THEN -1 ELSE 1)

DLess(x, y) == DCmp(x, y) < 0
DLeq(x, y) == DCmp(x, y) <= 0

(***************************************************************************)
(* IEEE-754 binary64 arithmetic: the exact result rounded to Prec          *)
(* significant bits, ties to the even mantissa.                            *)
(***************************************************************************)
Prec == 53

\* x has an odd mantissa: when more than Prec bits long, the bits cut off are
\* a half bit and, below it, a nonzero rest exactly when more than one bit is cut
Round(x) ==
    IF BitLen(x.m) <= Prec THEN x
    ELSE Let(BitLen(x.m) - Prec, LAMBDA sh :
         Let(BShr(x.m, sh), LAMBDA q :
             DNorm(x.neg,
                   IF BBit(x.m, sh - 1) = 1 /\ (sh > 1 \/ BBit(q, 0) = 1)
                   THEN BAdd(q, <<1>>) ELSE q,
                   x.e + sh)))

FAdd(x, y) == Let(DAdd(x, y), LAMBDA d : Round(d))
FSub(x, y) == Let(DSub(x, y), LAMBDA d : Round(d))
FMul(x, y) == Let(DMul(x, y), LAMBDA d : Round(d))

\* x / y for y # 0: the quotient of the mantissas to at least Prec + 2 bits with
\* a sticky bit for a nonzero remainder, then rounded
FDiv(x, y) ==
    IF x = DZero THEN DZero
    ELSE Let(Prec + 2 + BitLen(y.m) - BitLen(x.m), LAMBDA k :
         Let(BDivMod(BShl(x.m, k), y.m), LAMBDA qr :
         Let(DNorm(x.neg # y.neg,
                   BAdd(BShl(qr[1], 1), IF qr[2] = <<>> THEN <<>> ELSE <<1>>),
                   x.e - y.e - k - 1), LAMBDA d :
             Round(d))))

\* float(n) for a Python int n
FInt(n) == Round(DInt(n))


(***************************************************************************)
(* numpy array operations used by the solvers                              *)
(***************************************************************************)
\* np.zeros(len)
Zeros(len) == Tuple([k \in 1..len |-> DZero], len)

\* np.full(len, v)
Full(len, v) == Tuple([k \in 1..len |-> v], len)

\* np.sum(v): the elements added from left to right
RECURSIVE SumFrom(_, _, _)
SumFrom(v, k, acc) ==
    IF k > Len(v) THEN acc
    ELSE Let(FAdd(acc, v[k]), LAMBDA nx : SumFrom(v, k + 1, nx))

NpSum(v) == SumFrom(v, 1, DZero)

\* np.max(np.abs(v - w)) for arrays of one length >= 1
RECURSIVE MaxAbsDiffFrom(_, _, _, _)
MaxAbsDiffFrom(v, w, k, acc) ==
    IF k > Len(v) THEN acc
    ELSE Let(DAbs(FSub(v[k], w[k])), LAMBDA d :
         Let(IF DLess(acc, d) THEN d ELSE acc, LAMBDA nx :
             MaxAbsDiffFrom(v, w, k + 1, nx)))

MaxAbsDiff(v, w) == MaxAbsDiffFrom(v, w, 2, DAbs(FSub(v[1], w[1])))

(***************************************************************************)
(* Inputs                                                                  *)
(***************************************************************************)
MaxN == 3
MaxIter == 2

\* service-time lists S: equal and unequal demands, a demand whose reciprocal
\* is inexact, demands that are no binary fractions (0.1, 0.2), zero demand
ServiceLists ==
    { <<FInt(1)>>, <<FInt(49)>>, <<FInt(1), FInt(1)>>, <<FInt(1), FInt(2)>>,
      <<FDiv(FInt(1), FInt(10)), FDiv(FInt(1), FInt(5))>>, <<FInt(0), FInt(0)>> }

ThinkTimes == {FInt(0), FInt(2)}

\* tol: the default 1e-6 and a coarse 0.25
DefaultTol == FDiv(FInt(1), FInt(1000000))
Tolerances == {DefaultTol, DScaled(1, -2)}

RECURSIVE MaxLen(_)
MaxLen(lists) ==
    IF lists = {} THEN 0
    ELSE LET l == CHOOSE l \in lists : TRUE
         IN  MaxInt(Len(l), MaxLen(lists \ {l}))

StationCounts == 1..MaxLen(ServiceLists)

MaxR == 2

\* state lists (c, f, s): the three states of one job and the six of two jobs,
\* in two orders each; the states of two jobs with at most one job a station;
\* one state alone; lists that miss destinations; a list of two populations;
\* a list with a state twice; the empty list
StateSpaces ==
    { <<<<0, 0, 1>>, <<0, 1, 0>>, <<1, 0, 0>>>>,
      <<<<1, 0, 0>>, <<0, 0, 1>>, <<0, 1, 0>>>>,
      <<<<0, 0, 2>>, <<0, 1, 1>>, <<0, 2, 0>>, <<1, 0, 1>>, <<1, 1, 0>>, <<2, 0, 0>>>>,
      <<<<2, 0, 0>>, <<1, 1, 0>>, <<1, 0, 1>>, <<0, 2, 0>>, <<0, 1, 1>>, <<0, 0, 2>>>>,
      <<<<0, 1, 1>>, <<1, 0, 1>>, <<1, 1, 0>>>>,
      <<<<0, 0, 0>>>>,
      <<<<0, 1, 1>>, <<0, 2, 0>>, <<1, 0, 1>>, <<2, 0, 0>>>>,
      <<<<1, 0, 0>>, <<0, 1, 0>>>>,
      <<<<0, 0, 0>>, <<1, 0, 0>>>>,
      <<<<0, 0, 1>>, <<0, 1, 0>>, <<0, 1, 0>>, <<1, 0, 0>>>>,
      <<>> }

\* <<cpu_rate, fast_rate, slow_rate>>: whole rates, a cpu_rate whose half is
\* no whole number, a rate below 1, a rate that is not positive
RateTriples ==
    { <<FInt(2), FInt(1), FInt(3)>>, <<FInt(1), FInt(2), FInt(2)>>,
      <<FInt(3), DScaled(1, -1), FInt(1)>>, <<FInt(1), FInt(1), FInt(0)>> }

VARIABLES
    pc,                \* position: "idle", "exato_loop", "bard_loop", "bard_done",
                       \*           "markov_solve", "returned", "raised"
    fn,                \* the function of the current (or last) call
    args,              \* its arguments
    n,                 \* mva_exato: the population level of the next iteration
    i,                 \* mva_aproximado_bard: the index of the next iteration
    N_k, R_k, X, R_system, R_total,
    N_k_old, prop_N,
    history_X, history_R_system,
    loop_exit,         \* how the for loop of mva_aproximado_bard ended:
                       \* "none", "break" or "exhausted" (its else clause ran)
    warned,            \* the non-convergence warning was printed
    state_space,       \* calculate_system_performance_markov: the caller's list
    sys,               \* its matrix M and vector b
    result,            \* the returned dict; <<>> while there is none
    exc                \* the exception raised; "none" while there is none

mvaVars == <<n, i, N_k, R_k, X, R_system, R_total, N_k_old, prop_N,
             history_X, history_R_system, loop_exit, warned>>

markovVars == <<state_space, sys>>

vars == <<pc, fn, args, mvaVars, markovVars, result, exc>>

\* no call is running and the caller has dropped what the last call left
Idle == pc = "idle"

\* a call starts: nothing is returned or raised yet
Fresh(f, a) ==
    /\ fn' = f
    /\ args' = a
    /\ warned' = FALSE
    /\ loop_exit' = "none"

Init ==
    /\ pc = "idle"
    /\ fn = "none"
    /\ args = <<>>
    /\ n = 0
    /\ i = 0
    /\ N_k = <<>>
    /\ R_k = <<>>
    /\ X = DZero
    /\ R_system = DZero
    /\ R_total = DZero
    /\ N_k_old = <<>>
    /\ prop_N = DZero
    /\ history_X = <<>>
    /\ history_R_system = <<>>
    /\ loop_exit = "none"
    /\ warned = FALSE
    /\ state_space = <<>>
    /\ sys = <<>>
    /\ result = <<>>
    /\ exc = "none"

(***************************************************************************)
(* mva_exato(N, S, Z)                                                      *)
(***************************************************************************)
\* step 1: R_k[k] = S[k] * (1.0 + N_k[k])
ExatoResidence(S, Nk) ==
    Let(FInt(1), LAMBDA one :
        Tuple([k \in 1..Len(S) |-> FMul(S[k], FAdd(one, Nk[k]))], Len(S)))

\* faulty variant of step 2: the think time is not taken off the response time
ThroughputNoThink(lvl, Z, Rt) ==
    Let(FAdd(Z, Rt), LAMBDA d :
        IF d = DZero THEN <<DZero, DZero>>
        ELSE Let(FInt(lvl), LAMBDA num :
             Let(FDiv(num, d), LAMBDA x : <<x, FDiv(num, x)>>)))

\* step 2: <<X, R_system>> for population level lvl
ExatoThroughput(lvl, Z, Rt) ==
    Let(FAdd(Z, Rt), LAMBDA d :
        IF d = DZero THEN <<DZero, DZero>>
        ELSE Let(FInt(lvl), LAMBDA num :
             Let(FDiv(num, d), LAMBDA x : <<x, FSub(FDiv(num, x), Z)>>)))

\* faulty variant of step 3: the residence times are not scaled by X
QueueLengthsUnscaled(x, Rk) == Rk

\* step 3: N_k[k] = X * R_k[k]
QueueLengths(x, Rk) == Tuple([k \in 1..Len(Rk) |-> FMul(x, Rk[k])], Len(Rk))

\* one iteration of the loop over the population levels
ExatoBody(S, Z, lvl, Nk) ==
    Let(ExatoResidence(S, Nk), LAMBDA Rk :
    Let(NpSum(Rk), LAMBDA Rt :
    Let(ExatoThroughput(lvl, Z, Rt), LAMBDA xr :
        [R_k |-> Rk, R_total |-> Rt, X |-> xr[1], R_system |-> xr[2],
         N_k |-> QueueLengths(xr[1], Rk)])))

\* faulty variant of the history lists: one list kept across the calls
HistoryKept == history_X

\* history_X = [], history_R_system = []
ExatoHistoryInit == <<>>

\* called when nothing is left of earlier calls, or right after a call of
\* mva_exato has returned, with what that call left still in the variables
CallExato(N, S, Z) ==
    /\ Idle \/ (pc = "returned" /\ fn = "mva_exato")
    /\ Fresh("mva_exato", [N |-> N, S |-> S, Z |-> Z])
    /\ result' = <<>>
    /\ exc' = "none"
    /\ history_X' = ExatoHistoryInit
    /\ history_R_system' = ExatoHistoryInit
    /\ N_k' = Zeros(Len(S))
    /\ R_k' = Zeros(Len(S))
    /\ X' = DZero
    /\ R_system' = DZero
    /\ R_total' = DZero
    /\ n' = 1
    /\ pc' = "exato_loop"
    /\ UNCHANGED <<i, N_k_old, prop_N, markovVars>>

ExatoIter ==
    /\ pc = "exato_loop"
    /\ n <= args.N
    /\ \E st \in {ExatoBody(args.S, args.Z, n, N_k)} :
           /\ R_k' = st.R_k
           /\ R_total' = st.R_total
           /\ X' = st.X
           /\ R_system' = st.R_system
           /\ N_k' = st.N_k
           /\ history_X' = Append(history_X, st.X)
           /\ history_R_system' = Append(history_R_system, st.R_system)
    /\ n' = n + 1
    /\ UNCHANGED <<pc, fn, args, i, N_k_old, prop_N, loop_exit, warned, markovVars,
                   result, exc>>

\* U = [X * S[k] for k in range(K)]
Utilization(x, S) == Tuple([k \in 1..Len(S) |-> FMul(x, S[k])], Len(S))

ExatoResult ==
    [X |-> X, R_k |-> R_k, N_k |-> N_k, U_k |-> Utilization(X, args.S),
     R_total |-> R_system, history_X |-> history_X,
     history_R_total |-> history_R_system]

ExatoReturn ==
    /\ pc = "exato_loop"
    /\ n > args.N
    /\ result' = ExatoResult
    /\ pc' = "returned"
    /\ UNCHANGED <<fn, args, mvaVars, markovVars, exc>>

(***************************************************************************)
(* mva_aproximado_bard(N, M, S, Z, max_iter, tol, print_table)             *)
(***************************************************************************)
\* faulty variant of step a: the queue length is not scaled by prop_N
ResidenceWithoutProp(S, prop, Nk) == ExatoResidence(S, Nk)

\* step a: R_k[k] = S[k] * (1 + prop_N * N_k[k])
BardResidence(S, prop, Nk) ==
    Let(FInt(1), LAMBDA one :
        Tuple([k \in 1..Len(S) |-> FMul(S[k], FAdd(one, FMul(prop, Nk[k])))], Len(S)))

\* faulty variant of step b: the throughput leaves the think time out
ThroughputIgnoringThink(N, Z, Rt) ==
    IF Rt = DZero THEN <<DZero, DZero>>
    ELSE Let(FInt(N), LAMBDA num :
         Let(FDiv(num, Rt), LAMBDA x : <<x, FSub(FDiv(num, x), Z)>>))

\* step b: <<X, R_system>> for the population N
BardThroughput(N, Z, Rt) ==
    Let(FAdd(Z, Rt), LAMBDA d :
        IF d = DZero THEN <<DZero, DZero>>
        ELSE Let(FInt(N), LAMBDA num :
             Let(FDiv(num, d), LAMBDA x : <<x, FSub(FDiv(num, x), Z)>>)))

\* one iteration of the fixed-point loop, up to the convergence test
BardBody(N, S, Z, prop, Nk) ==
    Let(BardResidence(S, prop, Nk), LAMBDA Rk :
    Let(NpSum(Rk), LAMBDA Rt :
    Let(BardThroughput(N, Z, Rt), LAMBDA xr :
        [R_k |-> Rk, R_total |-> Rt, X |-> xr[1], R_system |-> xr[2],
         N_k |-> QueueLengths(xr[1], Rk)])))

\* faulty variant of the convergence test: the comparison turned round
ConvergedInverted(Nk, NkOld, tol) == DLess(tol, MaxAbsDiff(Nk, NkOld))

\* np.max(np.abs(N_k - N_k_old)) < tol
Converged(Nk, NkOld, tol) == DLess(MaxAbsDiff(Nk, NkOld), tol)

BardArgs(N, M, S, Z, max_iter, tol, print_table) ==
    [N |-> N, M |-> M, S |-> S, Z |-> Z, max_iter |-> max_iter, tol |-> tol,
     print_table |-> print_table]

\* M != len(S): ValueError
BardRaise(N, M, S, Z, max_iter, tol, print_table) ==
    /\ Idle
    /\ M # Len(S)
    /\ Fresh("mva_aproximado_bard", BardArgs(N, M, S, Z, max_iter, tol, print_table))
    /\ exc' = "ValueError"
    /\ result' = <<>>
    /\ pc' = "raised"
    /\ UNCHANGED <<n, i, N_k, R_k, X, R_system, R_total, N_k_old, prop_N,
                   history_X, history_R_system, markovVars>>

\* the dict returned for N == 0
BardZeroResult(M) ==
    [X |-> DZero, R_k |-> Zeros(M), N_k |-> Zeros(M), R_total |-> DZero]

BardReturnZero(N, M, S, Z, max_iter, tol, print_table) ==
    /\ Idle
    /\ M = Len(S)
    /\ N = 0
    /\ Fresh("mva_aproximado_bard", BardArgs(N, M, S, Z, max_iter, tol, print_table))
    /\ result' = BardZeroResult(M)
    /\ exc' = "none"
    /\ pc' = "returned"
    /\ UNCHANGED <<n, i, N_k, R_k, X, R_system, R_total, N_k_old, prop_N,
                   history_X, history_R_system, markovVars>>

BardStart(N, M, S, Z, max_iter, tol, print_table) ==
    /\ Idle
    /\ M = Len(S)
    /\ N # 0
    /\ Fresh("mva_aproximado_bard", BardArgs(N, M, S, Z, max_iter, tol, print_table))
    /\ history_X' = <<>>
    /\ history_R_system' = <<>>
    /\ N_k' = Full(M, FDiv(FInt(N), FInt(M)))
    /\ R_k' = Zeros(M)
    /\ prop_N' = FDiv(FInt(N - 1), FInt(N))
    /\ X' = DZero
    /\ R_system' = DZero
    /\ i' = 1
    /\ result' = <<>>
    /\ exc' = "none"
    /\ pc' = "bard_loop"
    /\ UNCHANGED <<n, R_total, N_k_old, markovVars>>

\* the three ways the function starts
CallBard(N, M, S, Z, max_iter, tol, print_table) ==
    \/ BardRaise(N, M, S, Z, max_iter, tol, print_table)
    \/ BardReturnZero(N, M, S, Z, max_iter, tol, print_table)
    \/ BardStart(N, M, S, Z, max_iter, tol, print_table)

\* one iteration; the loop is left by break when the queue lengths moved by
\* less than tol
BardIter ==
    /\ pc = "bard_loop"
    /\ i <= args.max_iter
    /\ \E st \in {BardBody(args.N, args.S, args.Z, prop_N, N_k)} :
           /\ N_k_old' = N_k
           /\ R_k' = st.R_k
           /\ R_total' = st.R_total
           /\ X' = st.X
           /\ R_system' = st.R_system
           /\ N_k' = st.N_k
           /\ history_X' = Append(history_X, st.X)
           /\ history_R_system' = Append(history_R_system, st.R_system)
           /\ IF Converged(st.N_k, N_k, args.tol)
              THEN /\ pc' = "bard_done"
                   /\ loop_exit' = "break"
                   /\ i' = i
              ELSE /\ pc' = "bard_loop"
                   /\ loop_exit' = loop_exit
                   /\ i' = i + 1
    /\ UNCHANGED <<fn, args, n, prop_N, warned, markovVars, result, exc>>

\* the loop ran out of iterations: its else clause prints the warning when
\* print_table is set
BardExhausted ==
    /\ pc = "bard_loop"
    /\ i > args.max_iter
    /\ loop_exit' = "exhausted"
    /\ warned' = args.print_table
    /\ pc' = "bard_done"
    /\ UNCHANGED <<fn, args, n, i, N_k, R_k, X, R_system, R_total, N_k_old, prop_N,
                   history_X, history_R_system, markovVars, result, exc>>

BardResult ==
    [X |-> X, R_k |-> R_k, N_k |-> N_k, R_total |-> R_system,
     history_X |-> history_X, history_R_total |-> history_R_system]

BardReturn ==
    /\ pc = "bard_done"
    /\ result' = BardResult
    /\ pc' = "returned"
    /\ UNCHANGED <<fn, args, mvaVars, markovVars, exc>>

(***************************************************************************)
(* calculate_system_performance_markov(state_space, max_r, cpu_rate,       *)
(*                                     fast_rate, slow_rate)               *)
(***************************************************************************)
\* faulty variant of to_fast and to_slow: the whole CPU rate each
Whole(rate) == rate

\* cpu_rate * 0.5
Half(rate) == FMul(rate, DScaled(1, -1))

\* idx_of(state): the first index of state in the list, 0 for None
IdxOf(space, state) ==
    LET at == {j \in 1..Len(space) : space[j] = state}
    IN  IF at = {} THEN 0 ELSE SetMin(at)

\* total_out of a state: 0, then the rates of its busy stations added in turn
TotalOut(state, rates) ==
    Let(IF state[1] > 0 THEN FAdd(DZero, rates[1]) ELSE DZero, LAMBDA t1 :
    Let(IF state[2] > 0 THEN FAdd(t1, rates[2]) ELSE t1, LAMBDA t2 :
        IF state[3] > 0 THEN FAdd(t2, rates[3]) ELSE t2))

\* M[i, j] -= rate, when the guard holds and idx_of found j
Reduce(row, guard, j, rate) ==
    IF guard /\ j # 0 THEN [row EXCEPT ![j] = FSub(row[j], rate)] ELSE row

\* row i of M as the loop body leaves it
LoopRow(space, max_r, rates, k) ==
    LET c == space[k][1]
        f == space[k][2]
        s == space[k][3]
    IN  Let([Zeros(Len(space)) EXCEPT ![k] = TotalOut(space[k], rates)], LAMBDA r0 :
        Let(Reduce(r0, c < max_r /\ f > 0, IdxOf(space, <<c + 1, f - 1, s>>),
                   Half(rates[1])), LAMBDA r1 :
        Let(Reduce(r1, c < max_r /\ s > 0, IdxOf(space, <<c + 1, f, s - 1>>),
                   Half(rates[1])), LAMBDA r2 :
        Let(Reduce(r2, c > 0 /\ f < max_r, IdxOf(space, <<c - 1, f + 1, s>>),
                   rates[2]), LAMBDA r3 :
            Reduce(r3, c > 0 /\ s < max_r, IdxOf(space, <<c - 1, f, s + 1>>),
                   rates[3])))))

\* M[-1, :] = 1.0
OnesRow(len) == Full(len, FInt(1))

\* faulty variant of b: the 1.0 in its first place
UnitFirst(len) == [Zeros(len) EXCEPT ![1] = FInt(1)]

\* b = np.zeros(n); b[-1] = 1.0
UnitLast(len) == [Zeros(len) EXCEPT ![len] = FInt(1)]

\* M and b as they are passed to np.linalg.solve, for a list of len >= 1 states
BuildSystem(space, max_r, rates) ==
    Let(Tuple([k \in 1..Len(space) |-> LoopRow(space, max_r, rates, k)], Len(space)),
        LAMBDA rows : [M |-> [rows EXCEPT ![Len(space)] = OnesRow(Len(space))],
                       b |-> UnitLast(Len(space))])

\* x / y for dyadic rationals whose quotient is a dyadic rational
DDivExact(x, y) ==
    IF x = DZero THEN DZero
    ELSE Let(BDivMod(x.m, y.m), LAMBDA qr : DNorm(x.neg # y.neg, qr[1], x.e - y.e))

\* rows k and r of the matrix a exchanged
SwapRows(a, k, r) == [a EXCEPT ![k] = a[r], ![r] = a[k]]

\* Fraction-free Gauss-Jordan elimination of the augmented matrix a (len rows,
\* len + 1 columns) from column k on, prev the pivot of the column before: the
\* matrix it ends with has one value d all along its diagonal, zero elsewhere
\* in its first len columns, and d * x in its last column, for the solution x.
\* <<>> when a column has no pivot: the matrix is singular.
RECURSIVE Eliminate(_, _, _)
Eliminate(a, k, prev) ==
    IF k > Len(a) THEN a
    ELSE Let({r \in k..Len(a) : a[r][k] # DZero}, LAMBDA rs :
         IF rs = {} THEN <<>>
         ELSE Let(SwapRows(a, k, SetMin(rs)), LAMBDA sw :
              Let(Tuple([r \in 1..Len(a) |->
                      IF r = k THEN sw[k]
                      ELSE Tuple([j \in 1..(Len(a) + 1) |->
                               DDivExact(DSub(DMul(sw[k][k], sw[r][j]),
                                              DMul(sw[r][k], sw[k][j])),
                                         prev)], Len(a) + 1)], Len(a)), LAMBDA nx :
                  Eliminate(nx, k + 1, sw[k][k]))))

\* np.linalg.solve(M, b) by its contract: the solution x of M x = b, each x[k]
\* as the fraction [num, den] with one den > 0 for all k; <<>> for LinAlgError
LinalgSolve(mat, rhs) ==
    Let(Tuple([r \in 1..Len(mat) |-> mat[r] \o <<rhs[r]>>], Len(mat)), LAMBDA aug :
    Let(Eliminate(aug, 1, DInt(1)), LAMBDA el :
        IF el = <<>> THEN <<>>
        ELSE Tuple([k \in 1..Len(mat) |->
                       [num |-> IF el[1][1].neg THEN DNeg(el[k][Len(mat) + 1])
                                ELSE el[k][Len(mat) + 1],
                        den |-> DAbs(el[1][1])]], Len(mat))))

\* sum(prob for prob, (c, _, _) in zip(pi, state_space) if c > 0)
RECURSIVE CpuBusyFrom(_, _, _, _)
CpuBusyFrom(pi, space, k, acc) ==
    IF k > Len(space) THEN acc
    ELSE Let(IF space[k][1] > 0 THEN DAdd(acc, pi[k].num) ELSE acc, LAMBDA nx :
             CpuBusyFrom(pi, space, k + 1, nx))

CpuBusyProb(pi, space) ==
    [num |-> CpuBusyFrom(pi, space, 1, DZero), den |-> pi[1].den]

\* list(zip(state_space, pi))
Zip(space, pi) == Tuple([k \in 1..Len(space) |-> <<space[k], pi[k]>>], Len(space))

MarkovResult(pi, space) ==
    [u_cpu |-> CpuBusyProb(pi, space), probabilities |-> Zip(space, pi)]

MarkovArgs(space, max_r, rates) ==
    [state_space |-> space, max_r |-> max_r, cpu_rate |-> rates[1],
     fast_rate |-> rates[2], slow_rate |-> rates[3]]

\* an empty list: M and b are empty and M[-1, :] raises IndexError
MarkovEmpty(space, max_r, rates) ==
    /\ Idle
    /\ Len(space) = 0
    /\ Fresh("calculate_system_performance_markov", MarkovArgs(space, max_r, rates))
    /\ state_space' = space
    /\ sys' = [M |-> <<>>, b |-> <<>>]
    /\ exc' = "IndexError"
    /\ result' = <<>>
    /\ pc' = "raised"
    /\ UNCHANGED <<n, i, N_k, R_k, X, R_system, R_total, N_k_old, prop_N,
                   history_X, history_R_system>>

\* the function up to the call of np.linalg.solve
MarkovBuild(space, max_r, rates) ==
    /\ Idle
    /\ Len(space) > 0
    /\ Fresh("calculate_system_performance_markov", MarkovArgs(space, max_r, rates))
    /\ state_space' = space
    /\ sys' = BuildSystem(space, max_r, rates)
    /\ exc' = "none"
    /\ result' = <<>>
    /\ pc' = "markov_solve"
    /\ UNCHANGED <<n, i, N_k, R_k, X, R_system, R_total, N_k_old, prop_N,
                   history_X, history_R_system>>

CallMarkov(space, max_r, rates) ==
    \/ MarkovEmpty(space, max_r, rates)
    \/ MarkovBuild(space, max_r, rates)

\* np.linalg.solve raises, or the function returns
MarkovSolve ==
    /\ pc = "markov_solve"
    /\ \E pi \in {LinalgSolve(sys.M, sys.b)} :
           IF pi = <<>>
           THEN /\ exc' = "LinAlgError"
                /\ result' = <<>>
                /\ pc' = "raised"
           ELSE /\ exc' = exc
                /\ result' = MarkovResult(pi, state_space)
                /\ pc' = "returned"
    /\ UNCHANGED <<fn, args, mvaVars, markovVars>>

\* the caller drops everything the last call left
Discard ==
    /\ pc \in {"returned", "raised"}
    /\ pc' = "idle"
    /\ fn' = "none"
    /\ args' = <<>>
    /\ n' = 0
    /\ i' = 0
    /\ N_k' = <<>>
    /\ R_k' = <<>>
    /\ X' = DZero
    /\ R_system' = DZero
    /\ R_total' = DZero
    /\ N_k_old' = <<>>
    /\ prop_N' = DZero
    /\ history_X' = <<>>
    /\ history_R_system' = <<>>
    /\ loop_exit' = "none"
    /\ warned' = FALSE
    /\ state_space' = <<>>
    /\ sys' = <<>>
    /\ result' = <<>>
    /\ exc' = "none"

Next ==
    \/ \E N \in 0..MaxN, S \in ServiceLists, Z \in ThinkTimes : CallExato(N, S, Z)
    \/ ExatoIter
    \/ ExatoReturn
    \/ \E N \in 0..MaxN, M \in StationCounts, S \in ServiceLists, Z \in ThinkTimes,
          max_iter \in 0..MaxIter, tol \in Tolerances, print_table \in BOOLEAN :
         CallBard(N, M, S, Z, max_iter, tol, print_table)
    \/ BardIter
    \/ BardExhausted
    \/ BardReturn
    \/ \E space \in StateSpaces, max_r \in 0..MaxR, rates \in RateTriples :
         CallMarkov(space, max_r, rates)
    \/ MarkovSolve
    \/ Discard

Spec == Init /\ [][Next]_vars

(***************************************************************************)
(* Properties                                                              *)
(***************************************************************************)
\* exact sum of the numbers of the sequence v from place k on
RECURSIVE DSumFrom(_, _)
DSumFrom(v, k) == IF k > Len(v) THEN DZero ELSE DAdd(v[k], DSumFrom(v, k + 1))

DSum(v) == DSumFrom(v, 1)

\* x is within ulps * 2^-Prec * scale of y, in exact arithmetic
Within(x, y, ulps, scale) ==
    DLeq(DAbs(DSub(x, y)), DMul(DScaled(ulps, -Prec), DAbs(scale)))

AllZero(v) == \A k \in 1..Len(v) : v[k] = DZero

AllPositive(v) == \A k \in 1..Len(v) : DLess(DZero, v[k])

\* an iteration of the running call of an MVA solver is complete
IterationDone ==
    /\ fn \in {"mva_exato", "mva_aproximado_bard"}
    /\ pc \in {"exato_loop", "bard_loop", "bard_done"}
    /\ Len(history_X) >= 1

\* the population that iteration was computed for
Population == IF fn = "mva_exato" THEN n - 1 ELSE args.N

BardRanOut ==
    /\ pc = "returned"
    /\ fn = "mva_aproximado_bard"
    /\ args.max_iter >= 1
    /\ loop_exit = "exhausted"

\* C1: when mva_aproximado_bard has run all its max_iter >= 1 iterations
\* without the convergence test ever holding, the value it returns holds the
\* estimates X, R_k, N_k, R_total and a converged flag that is FALSE.
C1_NonConvergedFlag ==
    BardRanOut =>
        /\ {"X", "R_k", "N_k", "R_total"} \subseteq DOMAIN result
        /\ "converged" \in DOMAIN result
        /\ result.converged = FALSE

\* C1: a call that ran out of iterations has returned
C1_RanOut == BardRanOut /\ args.N = 2 /\ args.max_iter = 1

\* C2: mva_aproximado_bard called with N = 0 returns X = 0, R_total = 0,
\* all-zero R_k and N_k, and history_X and history_R_total present and empty.
C2_ZeroPopulation ==
    (pc = "returned" /\ fn = "mva_aproximado_bard" /\ args.N = 0) =>
        /\ result.X = DZero
        /\ result.R_total = DZero
        /\ Len(result.R_k) = args.M /\ AllZero(result.R_k)
        /\ Len(result.N_k) = args.M /\ AllZero(result.N_k)
        /\ {"history_X", "history_R_total"} \subseteq DOMAIN result
        /\ result.history_X = <<>>
        /\ result.history_R_total = <<>>

\* C2: a call with N = 0 and M = len(S) has returned
C2_ZeroReturned ==
    pc = "returned" /\ fn = "mva_aproximado_bard" /\ args.N = 0 /\ args.M = 2

\* C3: for positive service demands, N = 1 and max_iter >= 1, the X, R_k, N_k
\* and R_total mva_aproximado_bard returns are those of population level 1 of
\* mva_exato on the same S and Z, however many iterations it ran.
C3_UnitPopulation ==
    (/\ pc = "returned"
     /\ fn = "mva_aproximado_bard"
     /\ args.N = 1
     /\ args.max_iter >= 1
     /\ AllPositive(args.S)) =>
        LET exato == ExatoBody(args.S, args.Z, 1, Zeros(Len(args.S)))
        IN  /\ result.X = exato.X
            /\ result.R_k = exato.R_k
            /\ result.N_k = exato.N_k
            /\ result.R_total = exato.R_system

\* C3: such a call has returned after two iterations, on unequal demands
C3_TwoIterations ==
    /\ pc = "returned"
    /\ fn = "mva_aproximado_bard"
    /\ args.N = 1
    /\ AllPositive(args.S)
    /\ Len(args.S) = 2
    /\ args.S[1] # args.S[2]
    /\ Len(result.history_X) = 2

\* a population level of the running call of mva_exato is complete
LevelDone == fn = "mva_exato" /\ pc = "exato_loop" /\ n > 1

\* C4 as stated: at the end of every population level of mva_exato,
\* N_k = X * R_k at every station and the response time recorded for the
\* level equals the sum of the R_k (as np.sum adds them, or exactly).
C4_ResponseIsSum ==
    LevelDone =>
        /\ \A k \in 1..Len(N_k) : N_k[k] = FMul(X, R_k[k])
        /\ \/ history_R_system[n - 1] = NpSum(R_k)
           \/ history_R_system[n - 1] = DSum(R_k)

\* C4 amended: at the end of every population level of mva_exato, N_k is the
\* float product X * R_k at every station; the response time recorded for the
\* level is the float n / X - Z, which is 0 when Z + sum(R_k) = 0 and otherwise
\* within 5 * 2^-53 * (Z + sum(R_k)) of the float sum of the R_k; the R_total
\* returned is the response time recorded for level N.
C4_ResponseNearSum ==
    /\ LevelDone =>
        /\ \A k \in 1..Len(N_k) : N_k[k] = FMul(X, R_k[k])
        /\ R_total = NpSum(R_k)
        /\ history_R_system[n - 1] = R_system
        /\ IF FAdd(args.Z, R_total) = DZero
           THEN R_system = DZero
           ELSE /\ R_system = FSub(FDiv(FInt(n - 1), X), args.Z)
                /\ Within(R_system, R_total, 5, DAdd(args.Z, R_total))
    /\ (fn = "mva_exato" /\ pc = "returned" /\ args.N >= 1) =>
        result.R_total = result.history_R_total[args.N]

\* C4: a level is complete whose recorded response time is not the sum
C4_RoundedApart == LevelDone /\ R_system # R_total /\ R_system # DSum(R_k)

\* the records of the population levels lvl..N of mva_exato, Nk the queue
\* lengths of level lvl - 1
RECURSIVE ExatoLevels(_, _, _, _, _)
ExatoLevels(S, Z, lvl, N, Nk) ==
    IF lvl > N THEN <<>>
    ELSE Let(ExatoBody(S, Z, lvl, Nk), LAMBDA st :
             <<st>> \o ExatoLevels(S, Z, lvl + 1, N, st.N_k))

\* C5: when mva_exato returns, history_X and history_R_total have N entries
\* each, entry n the X and the R_system of population level n of this call;
\* for N = 0 they are empty and X, R_total, R_k, N_k, U_k are zero.  While the
\* loop runs the histories hold one entry for each level done.
C5_Histories ==
    /\ (fn = "mva_exato" /\ pc = "exato_loop") =>
        Len(history_X) = n - 1 /\ Len(history_R_system) = n - 1
    /\ (fn = "mva_exato" /\ pc = "returned") =>
        LET levels == ExatoLevels(args.S, args.Z, 1, args.N, Zeros(Len(args.S)))
        IN  /\ Len(result.history_X) = args.N
            /\ Len(result.history_R_total) = args.N
            /\ \A k \in 1..args.N :
                 /\ result.history_X[k] = levels[k].X
                 /\ result.history_R_total[k] = levels[k].R_system
            /\ args.N = 0 =>
                 /\ result.X = DZero
                 /\ result.R_total = DZero
                 /\ AllZero(result.R_k)
                 /\ AllZero(result.N_k)
                 /\ AllZero(result.U_k)

\* C5: mva_exato has returned the histories of three levels, the throughputs
\* of which differ
C5_ThreeLevels ==
    /\ fn = "mva_exato"
    /\ pc = "returned"
    /\ args.N = 3
    /\ Len(result.history_X) = 3
    /\ result.history_X[1] # result.history_X[2]
    /\ result.history_X[2] # result.history_X[3]

Dedup(space) == \A j, l \in 1..Len(space) : space[j] = space[l] => j = l

Member(space, state) == \E j \in 1..Len(space) : space[j] = state

\* every destination of the four transitions of every state is in the list
Closed(space, max_r) ==
    \A j \in 1..Len(space) :
        LET c == space[j][1]
            f == space[j][2]
            s == space[j][3]
        IN  /\ (c < max_r /\ f > 0) => Member(space, <<c + 1, f - 1, s>>)
            /\ (c < max_r /\ s > 0) => Member(space, <<c + 1, f, s - 1>>)
            /\ (c > 0 /\ f < max_r) => Member(space, <<c - 1, f + 1, s>>)
            /\ (c > 0 /\ s < max_r) => Member(space, <<c - 1, f, s + 1>>)

ValidChain ==
    /\ fn = "calculate_system_performance_markov"
    /\ Dedup(state_space)
    /\ Closed(state_space, args.max_r)
    /\ DLess(DZero, args.cpu_rate)
    /\ DLess(DZero, args.fast_rate)
    /\ DLess(DZero, args.slow_rate)

C7_ZeroDenominator ==
    IterationDone =>
        /\ exc = "none"
        /\ IF FAdd(args.Z, R_total) = DZero
           THEN X = DZero /\ R_system = DZero /\ AllZero(N_k)
           ELSE /\ X = FDiv(FInt(Population), FAdd(args.Z, R_total))
                /\ X # DZero
                /\ R_system = FSub(FDiv(FInt(Population), X), args.Z)

\* C7: an iteration of mva_aproximado_bard is complete with Z + R_total = 0
C7_Degenerate ==
    /\ IterationDone
    /\ fn = "mva_aproximado_bard"
    /\ FAdd(args.Z, R_total) = DZero

\* state is at place j of the list and at no place before
FirstAt(space, state, j) ==
    space[j] = state /\ \A l \in 1..(j - 1) : space[l] # state

\* the entry M[r][j] the rows of C8 describe
Entry(space, max_r, cpu_rate, fast_rate, slow_rate, r, j) ==
    LET c == space[r][1]
        f == space[r][2]
        s == space[r][3]
    IN  IF r = Len(space) THEN FInt(1)
        ELSE IF j = r
        THEN FAdd(FAdd(IF c > 0 THEN cpu_rate ELSE DZero,
                       IF f > 0 THEN fast_rate ELSE DZero),
                  IF s > 0 THEN slow_rate ELSE DZero)
        ELSE IF c < max_r /\ f > 0 /\ FirstAt(space, <<c + 1, f - 1, s>>, j)
        THEN DNeg(FMul(DScaled(1, -1), cpu_rate))
        ELSE IF c < max_r /\ s > 0 /\ FirstAt(space, <<c + 1, f, s - 1>>, j)
        THEN DNeg(FMul(DScaled(1, -1), cpu_rate))
        ELSE IF c > 0 /\ f < max_r /\ FirstAt(space, <<c - 1, f + 1, s>>, j)
        THEN DNeg(fast_rate)
        ELSE IF c > 0 /\ s < max_r /\ FirstAt(space, <<c - 1, f, s + 1>>, j)
        THEN DNeg(slow_rate)
        ELSE DZero

\* C8: what calculate_system_performance_markov passes to the linear solve:
\* in every row i = (c, f, s) but the last, M[i,i] is the sum of the rates of
\* the busy stations, M[i,j] is minus 0.5 * cpu_rate for j = (c+1,f-1,s) when
\* c < max_r and f > 0 and for j = (c+1,f,s-1) when c < max_r and s > 0, minus
\* fast_rate for j = (c-1,f+1,s) when c > 0 and f < max_r, minus slow_rate for
\* j = (c-1,f,s+1) when c > 0 and s < max_r, each for j in state_space only,
\* and 0 elsewhere; the last row is all ones; b is 0 but for b[last] = 1;
\* state_space is unchanged.
C8_System ==
    (fn = "calculate_system_performance_markov" /\ pc \in {"markov_solve", "returned"}) =>
        LET len == Len(state_space)
        IN  /\ state_space = args.state_space
            /\ Len(sys.M) = len
            /\ Len(sys.b) = len
            /\ \A r \in 1..len :
                 /\ Len(sys.M[r]) = len
                 /\ sys.b[r] = IF r = len THEN FInt(1) ELSE DZero
                 /\ \A j \in 1..len :
                      sys.M[r][j] = Entry(state_space, args.max_r, args.cpu_rate,
                                          args.fast_rate, args.slow_rate, r, j)

\* C8: the system of the six states of two jobs is built, with a routing
\* entry of half the CPU rate in its first row
C8_SixRows ==
    /\ fn = "calculate_system_performance_markov"
    /\ pc = "markov_solve"
    /\ Len(state_space) = 6
    /\ \E j \in 2..6 : sys.M[1][j] = DNeg(FMul(DScaled(1, -1), args.cpu_rate))

\* the iterations mva_aproximado_bard runs, from iteration k with the queue
\* lengths Nk: up to the first whose queue lengths moved by less than tol
RECURSIVE BardIterations(_, _, _, _, _, _, _)
BardIterations(N, S, Z, max_iter, tol, k, Nk) ==
    IF k >= max_iter THEN max_iter
    ELSE Let(BardBody(N, S, Z, FDiv(FInt(N - 1), FInt(N)), Nk).N_k, LAMBDA nx :
             IF DLess(MaxAbsDiff(nx, Nk), tol) THEN k
             ELSE BardIterations(N, S, Z, max_iter, tol, k + 1, nx))

BardLoopLeft ==
    /\ fn = "mva_aproximado_bard"
    /\ pc \in {"bard_done", "returned"}
    /\ args.N >= 1
    /\ args.max_iter >= 1

\* what the loop of mva_aproximado_bard keeps: an iteration is done for every
\* index below i, none of them has met the convergence test, and i is at most
\* one beyond max_iter; and what holds once the loop is left
C9_Bounded ==
    /\ (fn = "mva_aproximado_bard" /\ pc = "bard_loop") =>
        /\ Len(history_X) = i - 1
        /\ i <= args.max_iter + 1
        /\ i > 1 => ~DLess(MaxAbsDiff(N_k, N_k_old), args.tol)
    /\ BardLoopLeft =>
        /\ Len(history_X) = BardIterations(args.N, args.S, args.Z, args.max_iter, args.tol,
                                           1, Full(args.M, FDiv(FInt(args.N), FInt(args.M))))
        /\ Len(history_R_system) = Len(history_X)
        /\ Len(history_X) >= 1
        /\ Len(history_X) <= args.max_iter
        /\ loop_exit = "break" <=> DLess(MaxAbsDiff(N_k, N_k_old), args.tol)
        /\ loop_exit = "exhausted" => Len(history_X) = args.max_iter
        /\ pc = "returned" =>
            /\ result.history_X = history_X
            /\ result.history_R_total = history_R_system

\* a step of mva_aproximado_bard in its loop runs iteration i <= max_iter and
\* goes on to iteration i + 1, or leaves the loop; out of the loop it returns
C9_Step ==
    /\ (fn = "mva_aproximado_bard" /\ pc = "bard_loop") =>
        \/ pc' = "bard_loop" /\ i <= args.max_iter /\ i' = i + 1
        \/ pc' = "bard_done"
    /\ (fn = "mva_aproximado_bard" /\ pc = "bard_done") => pc' = "returned"

\* C9: for N >= 1 and max_iter >= 1, mva_aproximado_bard terminates after at
\* most max_iter iterations: every step in the loop raises the iteration
\* index, which stays within max_iter + 1; the loop is left at the first
\* iteration whose queue lengths moved by less than tol, or else after
\* iteration max_iter; on return history_X and history_R_total have one entry
\* for each iteration run, between 1 and max_iter of them.
C9_Terminates == []C9_Bounded /\ [][C9_Step]_vars

\* C9: a call allowed two iterations has returned after the first
C9_EarlyStop ==
    /\ fn = "mva_aproximado_bard"
    /\ pc = "returned"
    /\ args.max_iter = 2
    /\ loop_exit = "break"
    /\ Len(result.history_X) = 1

\* an iteration is complete in which Z + R_total was not 0
ThroughputDone == IterationDone /\ FAdd(args.Z, R_total) # DZero

\* C10 as stated: after every iteration of either MVA solver with
\* Z + R_total not 0, the sum of the N_k plus X * Z equals the population
\* (in float arithmetic, or exactly).
C10_Conservation ==
    ThroughputDone =>
        \/ FAdd(NpSum(N_k), FMul(X, args.Z)) = FInt(Population)
        \/ DAdd(DSum(N_k), DMul(X, args.Z)) = DInt(Population)

\* C10 amended: after every iteration of either MVA solver with Z + R_total
\* not 0, the sum of the N_k plus X * Z is within (K + 3) * 2^-53 * n of the
\* population n, K the number of stations.
C10_NearConservation ==
    ThroughputDone =>
        Within(DAdd(DSum(N_k), DMul(X, args.Z)), DInt(Population),
               Len(N_k) + 3, DInt(Population))

\* C10: an iteration is complete after which the jobs do not add up to the
\* population
C10_RoundedApart ==
    /\ ThroughputDone
    /\ FAdd(NpSum(N_k), FMul(X, args.Z)) # FInt(Population)
    /\ DAdd(DSum(N_k), DMul(X, args.Z)) # DInt(Population)

====
